---- MODULE Spec2Model ----
(***************************************************************************)
(* Treasury report pipeline of reporte_tesoreria.py:                       *)
(*   cargar_datos -> limpiar_datos -> calcular_kpis -> exportar_excel      *)
(* Tables are pandas DataFrames. A DataFrame is an object: the model keeps *)
(* a heap of tables and the variables hold references into it, so that an  *)
(* in-place column assignment (df["x"] = ...) is seen through every alias  *)
(* while drop_duplicates / dropna / merge allocate a new table.            *)
(* Amounts are integers (hundredths); dates are integers YYYYMMDD.         *)
(***************************************************************************)
EXTENDS Integers, Sequences, FiniteSets, TLC

VARIABLES
    pc,                \* position of the main script
    movimientos,       \* rows of data/movimientos.csv
    heap,              \* the tables allocated so far, by reference
    df,                \* main's variable df (a reference)
    T,                 \* the reference passed to the last limpiar_datos call
    T_antes,           \* the content of that table when the call started
    eliminados,        \* "Registros eliminados" reported by limpiar_datos
    df2,               \* the result of cleaning the cleaned table again
    eliminados2,       \* and the count that second call reported
    df_antes,          \* the content of df when calcular_kpis was called
    flujo_diario, por_producto, top_contrapartes, alertas, resumen_mensual,
    libro              \* the sheets of the written workbook, in order

vars == <<pc, movimientos, heap, df, T, T_antes, eliminados, df2, eliminados2,
          df_antes, flujo_diario, por_producto, top_contrapartes, alertas,
          resumen_mensual, libro>>

\* Largest number of rows of movimientos.csv explored.
MaxRows == 2

(***************************************************************************)
(* Cells. A cell is missing (NaN / NaT), a number (also a date) or a       *)
(* string; a string is the sequence of its characters.                     *)
(***************************************************************************)
NaN == [k |-> "nan", s |-> <<>>, n |-> 0]

Num(x) == [k |-> "num", s |-> <<>>, n |-> x]

Str(q) == [k |-> "str", s |-> q, n |-> 0]

isna(c) == c.k = "nan"

UPPER == <<"A","B","C","D","E","F","G","H","I","J","K","L","M",
           "N","O","P","Q","R","S","T","U","V","W","X","Y","Z">>

LOWER == <<"a","b","c","d","e","f","g","h","i","j","k","l","m",
           "n","o","p","q","r","s","t","u","v","w","x","y","z">>

DIGITS == <<"0","1","2","3","4","5","6","7","8","9">>

\* Characters in code point order: space < digits < upper case < lower case.
CHARS == <<" ">> \o DIGITS \o UPPER \o LOWER

IndexOf(seq, c) ==
    IF \E i \in 1..Len(seq) : seq[i] = c
    THEN CHOOSE i \in 1..Len(seq) : seq[i] = c
    ELSE 0

RECURSIVE lstrip(_)
lstrip(q) == IF q # <<>> /\ Head(q) = " " THEN lstrip(Tail(q)) ELSE q

RECURSIVE rstrip(_)
rstrip(q) ==
    IF q # <<>> /\ q[Len(q)] = " " THEN rstrip(SubSeq(q, 1, Len(q) - 1)) ELSE q

\* Series.str.lower / upper / strip: a cell that is not a string gives NaN.
str_lower(c) ==
    IF c.k = "str"
    THEN Str([i \in 1..Len(c.s) |->
                LET u == IndexOf(UPPER, c.s[i]) IN
                IF u > 0 THEN LOWER[u] ELSE c.s[i]])
    ELSE NaN

str_upper(c) ==
    IF c.k = "str"
    THEN Str([i \in 1..Len(c.s) |->
                LET l == IndexOf(LOWER, c.s[i]) IN
                IF l > 0 THEN UPPER[l] ELSE c.s[i]])
    ELSE NaN

str_strip(c) == IF c.k = "str" THEN Str(rstrip(lstrip(c.s))) ELSE NaN

\* The value of a string of decimal digits.
RECURSIVE digits_value(_)
digits_value(q) ==
    IF q = <<>> THEN 0
    ELSE 10 * digits_value(SubSeq(q, 1, Len(q) - 1))
         + (IndexOf(DIGITS, q[Len(q)]) - 1)

\* pd.to_numeric(errors="coerce"): a number stays, a string of digits is
\* parsed, any other string and a missing cell give NaN.
to_numeric(c) ==
    CASE c.k = "num" -> c
      [] c.k = "str" ->
            IF c.s # <<>> /\ \A i \in 1..Len(c.s) : IndexOf(DIGITS, c.s[i]) > 0
            THEN Num(digits_value(c.s))
            ELSE NaN
      [] OTHER -> NaN

\* Python's order on strings: lexicographic by code point.
StrLess(a, b) ==
    \E i \in 1..(Len(b)) :
        /\ \A j \in 1..(i - 1) : j <= Len(a) /\ a[j] = b[j]
        /\ \/ i > Len(a)
           \/ (i <= Len(a) /\ IndexOf(CHARS, a[i]) < IndexOf(CHARS, b[i]))

\* The order groupby and sort_values use on the cells of a key column.
CellLess(x, y) ==
    IF x.k = "str" /\ y.k = "str" THEN StrLess(x.s, y.s) ELSE x.n < y.n

(***************************************************************************)
(* Tables. A row maps each column to a cell; "index" is the row's label.   *)
(***************************************************************************)
Tabla(cols, rows) == [cols |-> cols, rows |-> rows]

SetCol(row, col, v) ==
    [c \in (DOMAIN row) \cup {col} |-> IF c = col THEN v ELSE row[c]]

DropCols(row, cs) == [c \in (DOMAIN row) \ cs |-> row[c]]

\* The subsequence of s at the positions of the set I, from position i on.
RECURSIVE Tomar(_, _, _)
Tomar(s, I, i) ==
    IF i > Len(s) THEN <<>>
    ELSE (IF i \in I THEN <<s[i]>> ELSE <<>>) \o Tomar(s, I, i + 1)

\* A new table is appended to the heap; its reference is its position.
Alloc(h, t) == [h |-> Append(h, t), r |-> Len(h) + 1]

(***************************************************************************)
(* 1. cargar_datos                                                         *)
(***************************************************************************)
s_Overnight == <<"O","v","e","r","n","i","g","h","t">>
s_Repo == <<"R","e","p","o">>

\* productos.csv as generar_datos writes it (two of its five products).
PRODUCTOS ==
    << [producto_id |-> Num(2), nombre_producto |-> Str(s_Overnight)],
       [producto_id |-> Num(4), nombre_producto |-> Str(s_Repo)] >>

MovCols == {"index", "id_movimiento", "fecha", "producto_id", "tipo_operacion",
            "monto", "moneda", "contraparte"}

\* pd.read_csv: the rows of the file under a RangeIndex 0..n-1. A cell of a
\* text column is a string or missing, or a number where the parser, which
\* infers types chunk by chunk (low_memory), met a chunk of numbers only.
read_csv(filas) ==
    Tabla(MovCols, [i \in 1..Len(filas) |-> SetCol(filas[i], "index", Num(i - 1))])

\* df.merge(productos, on="producto_id", how="left"): every left row is kept,
\* in order; a producto_id with no match gets a missing nombre_producto.
merge_left(izq, prods) ==
    Tabla(izq.cols \cup {"nombre_producto"},
          [i \in 1..Len(izq.rows) |->
              LET r == izq.rows[i]
                  m == {j \in 1..Len(prods) : prods[j].producto_id = r["producto_id"]}
              IN  SetCol(r, "nombre_producto",
                         IF m = {} THEN NaN
                         ELSE prods[CHOOSE j \in m : TRUE].nombre_producto)])

cargar_datos(h, filas) ==
    LET a == Alloc(h, read_csv(filas))
    IN  Alloc(a.h, merge_left(a.h[a.r], PRODUCTOS))

(***************************************************************************)
(* 2. limpiar_datos                                                        *)
(***************************************************************************)
s_ingreso == <<"i","n","g","r","e","s","o">>
s_egreso == <<"e","g","r","e","s","o">>
s_PEN == <<"P","E","N">>
s_USD == <<"U","S","D">>

\* A call in progress: the heap, the reference the local variable df holds,
\* and whether a statement has raised ("si"), none can ("no"), or the pandas
\* version decides ("depende").
Local(h, r, raises) == [h |-> h, r |-> r, raises |-> raises]

Rebind(e, a) == Local(a.h, a.r, e.raises)

\* Faulty variant, keep="last": C5_PrimerDuplicado must tell it apart.
drop_duplicates_last(h, r, col) ==
    Alloc(h, Tabla(h[r].cols,
                   Tomar(h[r].rows,
                         {i \in 1..Len(h[r].rows) :
                             \A j \in (i + 1)..Len(h[r].rows) :
                                 h[r].rows[j][col] # h[r].rows[i][col]},
                         1)))

\* Faulty variant, inplace=True: the duplicates leave the caller's table;
\* C7_LimpiarNoModificaEntrada must tell it apart.
drop_duplicates_inplace(h, r, col) ==
    [h |-> [h EXCEPT ![r] =
                Tabla(@.cols,
                      Tomar(@.rows,
                            {i \in 1..Len(@.rows) :
                                \A j \in 1..(i - 1) : @.rows[j][col] # @.rows[i][col]},
                            1))],
     r |-> r]

\* DataFrame.drop_duplicates(subset=col), keep="first": a new table holding
\* each row whose value in col no earlier row has.
drop_duplicates(h, r, col) ==
    Alloc(h, Tabla(h[r].cols,
                   Tomar(h[r].rows,
                         {i \in 1..Len(h[r].rows) :
                             \A j \in 1..(i - 1) : h[r].rows[j][col] # h[r].rows[i][col]},
                         1)))

\* DataFrame.dropna(subset=cs): a new table without the rows missing any of cs.
dropna(h, r, cs) ==
    Alloc(h, Tabla(h[r].cols,
                   Tomar(h[r].rows,
                         {i \in 1..Len(h[r].rows) : \A c \in cs : ~isna(h[r].rows[i][c])},
                         1)))

\* df[col] = valores: the table behind the reference is changed in place.
setitem(h, r, col, valores) ==
    [h EXCEPT ![r] =
        Tabla(@.cols \cup {col},
              [i \in 1..Len(@.rows) |-> SetCol(@.rows[i], col, valores[i])])]

\* pd.to_datetime on a column read_csv already parsed (parse_dates): a date
\* stays the date it is, a missing cell stays missing.
to_datetime(c) == IF c.k = "num" THEN Num(c.n) ELSE NaN

\* The .str accessor raises AttributeError on a column that holds values and
\* none of them a string; it accepts an empty column and a mixed one.
str_accessor_ok(t, col) ==
    t.rows = <<>> \/ \E i \in 1..Len(t.rows) : t.rows[i][col].k = "str"

\* line 46: df = df.drop_duplicates(subset="id_movimiento")
limpiar_46(e) == Rebind(e, drop_duplicates(e.h, e.r, "id_movimiento"))

\* line 49: df = df.dropna(subset=["fecha", "monto", "tipo_operacion", "moneda"])
limpiar_49(e) ==
    Rebind(e, dropna(e.h, e.r, {"fecha", "monto", "tipo_operacion", "moneda"}))

\* line 52: df["monto"] = pd.to_numeric(df["monto"], errors="coerce")
limpiar_52(e) ==
    Local(setitem(e.h, e.r, "monto",
                  [i \in 1..Len(e.h[e.r].rows) |-> to_numeric(e.h[e.r].rows[i]["monto"])]),
          e.r, e.raises)

\* line 53: df["fecha"] = pd.to_datetime(df["fecha"])
limpiar_53(e) ==
    Local(setitem(e.h, e.r, "fecha",
                  [i \in 1..Len(e.h[e.r].rows) |-> to_datetime(e.h[e.r].rows[i]["fecha"])]),
          e.r, e.raises)

\* line 54: df = df.dropna(subset=["monto"])
limpiar_54(e) == Rebind(e, dropna(e.h, e.r, {"monto"}))

\* line 57: df["tipo_operacion"] = df["tipo_operacion"].str.lower().str.strip()
limpiar_57(e) ==
    Local(setitem(e.h, e.r, "tipo_operacion",
                  [i \in 1..Len(e.h[e.r].rows) |->
                      str_strip(str_lower(e.h[e.r].rows[i]["tipo_operacion"]))]),
          e.r,
          IF str_accessor_ok(e.h[e.r], "tipo_operacion") THEN e.raises ELSE "si")

\* line 58: df["moneda"] = df["moneda"].str.upper().str.strip()
limpiar_58(e) ==
    Local(setitem(e.h, e.r, "moneda",
                  [i \in 1..Len(e.h[e.r].rows) |->
                      str_strip(str_upper(e.h[e.r].rows[i]["moneda"]))]),
          e.r,
          IF str_accessor_ok(e.h[e.r], "moneda") THEN e.raises ELSE "si")

\* The lambda of lines 61-64: monto con signo (ingresos +, egresos -).
monto_con_signo(row) ==
    IF row["tipo_operacion"] = Str(s_ingreso)
    THEN row["monto"]
    ELSE Num(-(row["monto"].n))

\* lines 61-64: df["monto_neto"] = df.apply(..., axis=1). On a table without
\* rows apply returns a table, and assigning a table to one column is an
\* error in some pandas versions only.
limpiar_61(e) ==
    Local(setitem(e.h, e.r, "monto_neto",
                  [i \in 1..Len(e.h[e.r].rows) |-> monto_con_signo(e.h[e.r].rows[i])]),
          e.r,
          IF e.raises = "no" /\ e.h[e.r].rows = <<>> THEN "depende" ELSE e.raises)

\* lines 66-69: the count reported and the table returned.
limpiar_66(registros_antes, e) ==
    [h |-> e.h, r |-> e.r, raises |-> e.raises,
     eliminados |-> registros_antes - Len(e.h[e.r].rows)]

\* The call limpiar_datos(df) with df the reference r.
limpiar_datos(h, r) ==
    limpiar_66(Len(h[r].rows),
        limpiar_61(limpiar_58(limpiar_57(limpiar_54(limpiar_53(limpiar_52(
            limpiar_49(limpiar_46(Local(h, r, "no"))))))))))

(***************************************************************************)
(* 3. calcular_kpis                                                        *)
(***************************************************************************)
Rango(seq) == {seq[i] : i \in 1..Len(seq)}

\* The sum of column col over the rows of t at the positions in I, from i on
\* (Series.sum skips missing cells).
RECURSIVE Suma(_, _, _, _)
Suma(t, I, col, i) ==
    IF i > Len(t.rows) THEN 0
    ELSE (IF i \in I /\ t.rows[i][col].k = "num" THEN t.rows[i][col].n ELSE 0)
         + Suma(t, I, col, i + 1)

\* Series.count: the cells that are not missing.
Cuenta(t, I, col) == Cardinality({i \in I : ~isna(t.rows[i][col])})

\* Series.mean().round(2) of amounts kept in hundredths: the quotient rounded
\* to the nearest integer, a tie to the even one.
Promedio(suma, cuenta) ==
    LET q == suma \div cuenta
        resto == suma % cuenta
    IN  IF 2 * resto < cuenta THEN q
        ELSE IF 2 * resto > cuenta THEN q + 1
        ELSE IF q % 2 = 0 THEN q ELSE q + 1

\* groupby(cols): the keys of the groups. Rows missing a key cell are in no
\* group (dropna=True), and the groups come sorted by key (sort=True).
ClaveLess(x, y, cols) ==
    \E i \in 1..Len(cols) :
        /\ \A j \in 1..(i - 1) : x[cols[j]] = y[cols[j]]
        /\ CellLess(x[cols[i]], y[cols[i]])

Claves(t, cols) ==
    { [c \in Rango(cols) |-> t.rows[i][c]] :
        i \in {j \in 1..Len(t.rows) : \A c \in Rango(cols) : ~isna(t.rows[j][c])} }

Ordenadas(S, cols) ==
    [i \in 1..Cardinality(S) |->
        CHOOSE x \in S : Cardinality({y \in S : ClaveLess(y, x, cols)}) = i - 1]

groupby(t, cols) == Ordenadas(Claves(t, cols), cols)

\* The positions of the rows of the group of a key.
Grupo(t, clave) ==
    {i \in 1..Len(t.rows) : \A c \in DOMAIN clave : t.rows[i][c] = clave[c]}

\* lambda x: x[df.loc[x.index, "tipo_operacion"] == tipo].sum()
SumaTipo(t, I, tipo) ==
    Suma(t, {i \in I : t.rows[i]["tipo_operacion"] = Str(tipo)}, "monto", 1)

\* sort_values(by=col): the default quicksort is not stable, so rows with
\* equal keys may come out in any order.
Ordenes(n) == {p \in [1..n -> 1..n] : \A i, j \in 1..n : i # j => p[i] # p[j]}

sort_values(s, col, ascending) ==
    { [i \in 1..Len(s) |-> s[p[i]]] :
        p \in {q \in Ordenes(Len(s)) :
                 \A i \in 1..(Len(s) - 1) :
                    IF ascending THEN s[q[i]][col] <= s[q[i + 1]][col]
                    ELSE s[q[i]][col] >= s[q[i + 1]][col]} }

\* DataFrame.head(n)
head(s, n) == SubSeq(s, 1, IF Len(s) < n THEN Len(s) ELSE n)

\* line 116: .head(10)
TopN == 10

\* lines 77-87: one row per (fecha, moneda), sorted by fecha, then moneda.
fila_flujo(t, clave) ==
    [fecha          |-> clave["fecha"],
     moneda         |-> clave["moneda"],
     total_ingresos |-> SumaTipo(t, Grupo(t, clave), s_ingreso),
     total_egresos  |-> SumaTipo(t, Grupo(t, clave), s_egreso),
     flujo_neto     |-> Suma(t, Grupo(t, clave), "monto_neto", 1),
     n_operaciones  |-> Cuenta(t, Grupo(t, clave), "id_movimiento")]

agg_flujo(t, claves) == [i \in 1..Len(claves) |-> fila_flujo(t, claves[i])]

\* The running sum of flujo_neto over the rows up to i that have row i's
\* moneda.
RECURSIVE SumaHasta(_, _, _)
SumaHasta(fd, moneda, i) ==
    IF i = 0 THEN 0
    ELSE (IF fd[i].moneda = moneda THEN fd[i].flujo_neto ELSE 0)
         + SumaHasta(fd, moneda, i - 1)

\* Faulty variant, the running sum without the groupby("moneda"):
\* C1_SaldoAcumulado must tell it apart.
RECURSIVE SumaHastaSinGrupo(_, _)
SumaHastaSinGrupo(fd, i) ==
    IF i = 0 THEN 0 ELSE fd[i].flujo_neto + SumaHastaSinGrupo(fd, i - 1)

cumsum_sin_grupo(fd) == [i \in 1..Len(fd) |-> SumaHastaSinGrupo(fd, i)]

\* line 90: flujo_diario.groupby("moneda")["flujo_neto"].cumsum()
cumsum_por_moneda(fd) == [i \in 1..Len(fd) |-> SumaHasta(fd, fd[i].moneda, i)]

con_saldo(fd, saldos) ==
    [i \in 1..Len(fd) |->
        [fecha          |-> fd[i].fecha,
         moneda         |-> fd[i].moneda,
         total_ingresos |-> fd[i].total_ingresos,
         total_egresos  |-> fd[i].total_egresos,
         flujo_neto     |-> fd[i].flujo_neto,
         n_operaciones  |-> fd[i].n_operaciones,
         saldo_acumulado |-> saldos[i]]]

saldo_acumulado(fd) == con_saldo(fd, cumsum_por_moneda(fd))

\* lines 77-90
kpis_flujo_diario(t) == saldo_acumulado(agg_flujo(t, groupby(t, <<"fecha", "moneda">>)))

\* lines 93-104: one row per (nombre_producto, moneda), by total_ingresos
\* descending.
fila_producto(t, clave) ==
    [nombre_producto |-> clave["nombre_producto"],
     moneda          |-> clave["moneda"],
     n_operaciones   |-> Cuenta(t, Grupo(t, clave), "id_movimiento"),
     total_ingresos  |-> SumaTipo(t, Grupo(t, clave), s_ingreso),
     total_egresos   |-> SumaTipo(t, Grupo(t, clave), s_egreso),
     monto_promedio  |-> Promedio(Suma(t, Grupo(t, clave), "monto", 1),
                                  Cuenta(t, Grupo(t, clave), "monto"))]

agg_producto(t, claves) == [i \in 1..Len(claves) |-> fila_producto(t, claves[i])]

kpis_por_producto(t) ==
    sort_values(agg_producto(t, groupby(t, <<"nombre_producto", "moneda">>)),
                "total_ingresos", FALSE)

\* lines 107-118: one row per contraparte, by volumen_total descending, the
\* first ten.
fila_contraparte(t, clave) ==
    [contraparte    |-> clave["contraparte"],
     n_operaciones  |-> Cuenta(t, Grupo(t, clave), "id_movimiento"),
     volumen_total  |-> Suma(t, Grupo(t, clave), "monto", 1),
     monto_promedio |-> Promedio(Suma(t, Grupo(t, clave), "monto", 1),
                                 Cuenta(t, Grupo(t, clave), "monto"))]

agg_contraparte(t, claves) ==
    [i \in 1..Len(claves) |-> fila_contraparte(t, claves[i])]

kpis_top_contrapartes(t) ==
    { head(s, TopN) :
        s \in sort_values(agg_contraparte(t, groupby(t, <<"contraparte">>)),
                          "volumen_total", FALSE) }

\* Faulty variant, the filter on the currency forgotten: C9_Alertas must
\* tell it apart.
filtro_alertas_toda_moneda(fd) ==
    {i \in 1..Len(fd) : fd[i].flujo_neto < 0}

\* lines 121-122: the PEN rows of flujo_diario with a negative flujo_neto
filtro_alertas(fd) ==
    {i \in 1..Len(fd) : fd[i].moneda = Str(s_PEN) /\ fd[i].flujo_neto < 0}

\* line 123
fila_alerta(f) ==
    [fecha |-> f.fecha, flujo_neto |-> f.flujo_neto,
     saldo_acumulado |-> f.saldo_acumulado, estado |-> "FLUJO NEGATIVO"]

seleccion_alertas(fd) ==
    [i \in 1..Len(fd) |-> fila_alerta(fd[i])]

\* lines 121-124
kpis_alertas(fd) ==
    sort_values(seleccion_alertas(Tomar(fd, filtro_alertas(fd), 1)),
                "flujo_neto", TRUE)

\* df["fecha"].dt.to_period("M").astype(str): "YYYY-MM"
periodo_M(fecha) ==
    Str(<< DIGITS[((fecha.n \div 10000000) % 10) + 1],
           DIGITS[((fecha.n \div 1000000) % 10) + 1],
           DIGITS[((fecha.n \div 100000) % 10) + 1],
           DIGITS[((fecha.n \div 10000) % 10) + 1],
           "-",
           DIGITS[((fecha.n \div 1000) % 10) + 1],
           DIGITS[((fecha.n \div 100) % 10) + 1] >>)

\* line 127: df["mes"] = ..., on the table the caller passed
kpis_mes(h, r) ==
    setitem(h, r, "mes", [i \in 1..Len(h[r].rows) |-> periodo_M(h[r].rows[i]["fecha"])])

\* lines 128-136: one row per (mes, moneda), in group order.
fila_mensual(t, clave) ==
    [mes            |-> clave["mes"],
     moneda         |-> clave["moneda"],
     total_ingresos |-> SumaTipo(t, Grupo(t, clave), s_ingreso),
     total_egresos  |-> SumaTipo(t, Grupo(t, clave), s_egreso),
     flujo_neto     |-> Suma(t, Grupo(t, clave), "monto_neto", 1)]

agg_mensual(t, claves) == [i \in 1..Len(claves) |-> fila_mensual(t, claves[i])]

kpis_resumen_mensual(t) == agg_mensual(t, groupby(t, <<"mes", "moneda">>))

(***************************************************************************)
(* 4. exportar_excel                                                       *)
(***************************************************************************)
Hoja(nombre, filas) == [sheet_name |-> nombre, filas |-> filas]

\* Faulty variant, the alerts written as they are, also when there are none:
\* C10_SeisHojas must tell it apart.
hoja_alertas_sin_aviso(al) == Hoja("Alertas Liquidez", al)

\* lines 161-166
hoja_alertas(al) ==
    IF Len(al) > 0
    THEN Hoja("Alertas Liquidez", al)
    ELSE Hoja("Alertas Liquidez", << [mensaje |-> "Sin alertas en el periodo"] >>)

\* lines 169-171: df_raw.drop(columns=["monto_neto", "mes"], errors="ignore")
data_completa(t) ==
    [i \in 1..Len(t.rows) |-> DropCols(t.rows[i], {"monto_neto", "mes"})]

\* The sheets in the order the with block writes them.
exportar_excel(df_raw, fd, rm, pp, tc, al) ==
    << Hoja("Flujo Diario", fd),
       Hoja("Resumen Mensual", rm),
       Hoja("Por Producto", pp),
       Hoja("Top Contrapartes", tc),
       hoja_alertas(al),
       Hoja("Data Completa", data_completa(df_raw)) >>

(***************************************************************************)
(* The files the runs start from                                           *)
(***************************************************************************)
s_BCP == <<"B","C","P">>
s_BBVA == <<"B","B","V","A">>
s_otro == <<"o","t","r","o">>

Mov(id, v) ==
    [id_movimiento |-> Num(id), fecha |-> v[1], producto_id |-> Num(v[2]),
     tipo_operacion |-> v[3], monto |-> v[4], moneda |-> v[5],
     contraparte |-> v[6]]

Ids == {1, 2}

\* Rows for the aggregation: clean values, two days of January and one of
\* February, both currencies, a product id productos.csv lacks, an
\* operation type that is neither ingreso nor egreso, an income and an
\* expense that cancel on one day, a row without amount.
VariantesKpi ==
    { <<Num(20240102), 2, Str(s_ingreso), Num(100), Str(s_PEN), Str(s_BCP)>>,
      <<Num(20240102), 2, Str(s_egreso),  Num(40),  Str(s_PEN), Str(s_BBVA)>>,
      <<Num(20240103), 4, Str(s_egreso),  Num(150), Str(s_PEN), Str(s_BCP)>>,
      <<Num(20240103), 4, Str(s_ingreso), Num(50),  Str(s_USD), Str(s_BBVA)>>,
      <<Num(20240201), 2, Str(s_egreso),  Num(40),  Str(s_USD), Str(s_BCP)>>,
      <<Num(20240201), 9, Str(s_ingreso), Num(100), Str(s_PEN), Str(s_BBVA)>>,
      <<Num(20240102), 4, Str(s_otro),    Num(40),  Str(s_PEN), Str(s_BCP)>>,
      <<Num(20240102), 4, Str(s_ingreso), Num(40),  Str(s_PEN), Str(s_BBVA)>>,
      <<Num(20240103), 2, Str(s_ingreso), NaN,      Str(s_PEN), Str(s_BBVA)>> }

\* Rows for the cleaning: text to normalise, an amount given as text, cells
\* that are missing or do not parse, an operation type that is a number.
VariantesLimpieza ==
    { <<Num(20240102), 2, Str(s_ingreso), Num(100), Str(s_PEN), Str(s_BCP)>>,
      <<Num(20240103), 4, Str(<<" ","E","g","r","e","s","o">>),
        Str(<<"4","0">>), Str(<<"u","s","d"," ">>), Str(s_BBVA)>>,
      <<NaN,           2, Str(s_ingreso), Num(100), Str(s_PEN), Str(s_BCP)>>,
      <<Num(20240102), 2, Str(s_egreso),  Str(<<"a","b","c">>), Str(s_PEN), Str(s_BCP)>>,
      <<Num(20240102), 4, Str(s_egreso),  NaN,      Str(s_USD), Str(s_BBVA)>>,
      <<Num(20240102), 4, NaN,            Num(40),  Str(s_PEN), Str(s_BBVA)>>,
      <<Num(20240103), 2, Str(s_ingreso), Num(40),  NaN,        Str(s_BCP)>>,
      <<Num(20240103), 2, Num(5),         Num(150), Str(s_PEN), Str(s_BCP)>> }

Archivos(variantes) ==
    UNION { [1..n -> {Mov(id, v) : id \in Ids, v \in variantes}] : n \in 0..MaxRows }

SinTabla == Tabla({}, <<>>)

InitCon(variantes) ==
    /\ pc = "start"
    /\ movimientos \in Archivos(variantes)
    /\ heap = <<>>
    /\ df = 0
    /\ T = 0
    /\ T_antes = SinTabla
    /\ eliminados = 0
    /\ df2 = 0
    /\ eliminados2 = 0
    /\ df_antes = SinTabla
    /\ flujo_diario = <<>>
    /\ por_producto = <<>>
    /\ top_contrapartes = <<>>
    /\ alertas = <<>>
    /\ resumen_mensual = <<>>
    /\ libro = <<>>

Init == InitCon(VariantesKpi)

InitLimpieza == InitCon(VariantesLimpieza)

(***************************************************************************)
(* The steps of the main script                                            *)
(***************************************************************************)
\* df = cargar_datos()
CargarDatos ==
    /\ pc = "start"
    /\ LET c == cargar_datos(heap, movimientos)
       IN  heap' = c.h /\ df' = c.r
    /\ pc' = "loaded"
    /\ UNCHANGED <<movimientos, T, T_antes, eliminados, df2, eliminados2, df_antes,
                   flujo_diario, por_producto, top_contrapartes, alertas,
                   resumen_mensual, libro>>

\* df = limpiar_datos(df)
LimpiarDatos ==
    /\ pc = "loaded"
    /\ LET res == limpiar_datos(heap, df)
       IN  /\ T' = df
           /\ T_antes' = heap[df]
           /\ \/ /\ res.raises # "si"
                 /\ heap' = res.h
                 /\ df' = res.r
                 /\ eliminados' = res.eliminados
                 /\ pc' = "cleaned"
              \/ /\ res.raises # "no"
                 /\ pc' = "failed"
                 /\ UNCHANGED <<heap, df, eliminados>>
    /\ UNCHANGED <<movimientos, df2, eliminados2, df_antes,
                   flujo_diario, por_producto, top_contrapartes, alertas,
                   resumen_mensual, libro>>

\* limpiar_datos(df) once more, on the table the first call returned
LimpiarOtraVez ==
    /\ pc = "cleaned"
    /\ LET res == limpiar_datos(heap, df)
       IN  /\ T' = df
           /\ T_antes' = heap[df]
           /\ \/ /\ res.raises # "si"
                 /\ heap' = res.h
                 /\ df2' = res.r
                 /\ eliminados2' = res.eliminados
                 /\ pc' = "recleaned"
              \/ /\ res.raises # "no"
                 /\ pc' = "failed"
                 /\ UNCHANGED <<heap, df2, eliminados2>>
    /\ UNCHANGED <<movimientos, df, eliminados, df_antes,
                   flujo_diario, por_producto, top_contrapartes, alertas,
                   resumen_mensual, libro>>

\* flujo_diario, ..., resumen_mensual = calcular_kpis(df)
CalcularKpis ==
    /\ pc = "cleaned"
    /\ df_antes' = heap[df]
    /\ flujo_diario' = kpis_flujo_diario(heap[df])
    /\ por_producto' \in kpis_por_producto(heap[df])
    /\ top_contrapartes' \in kpis_top_contrapartes(heap[df])
    /\ alertas' \in kpis_alertas(flujo_diario')
    /\ heap' = kpis_mes(heap, df)
    /\ resumen_mensual' = kpis_resumen_mensual(heap'[df])
    /\ pc' = "kpis"
    /\ UNCHANGED <<movimientos, df, T, T_antes, eliminados, df2, eliminados2, libro>>

\* exportar_excel(df, flujo_diario, por_producto, top_contrapartes, alertas,
\*                resumen_mensual)
ExportarExcel ==
    /\ pc = "kpis"
    /\ libro' = exportar_excel(heap[df], flujo_diario, resumen_mensual,
                               por_producto, top_contrapartes, alertas)
    /\ pc' = "exported"
    /\ UNCHANGED <<movimientos, heap, df, T, T_antes, eliminados, df2, eliminados2,
                   df_antes, flujo_diario, por_producto, top_contrapartes,
                   alertas, resumen_mensual>>

Next ==
    \/ CargarDatos
    \/ LimpiarDatos
    \/ LimpiarOtraVez
    \/ CalcularKpis
    \/ ExportarExcel

Spec == Init /\ [][Next]_vars

SpecLimpieza == InitLimpieza /\ [][Next]_vars

(***************************************************************************)
(* Properties                                                              *)
(***************************************************************************)
\* The sum of a numeric field over the records of s at the positions in I.
RECURSIVE SumaCampo(_, _, _, _)
SumaCampo(s, I, campo, i) ==
    IF i > Len(s) THEN 0
    ELSE (IF i \in I THEN s[i][campo] ELSE 0) + SumaCampo(s, I, campo, i + 1)

FilasDe(t, moneda) == {i \in 1..Len(t.rows) : t.rows[i]["moneda"] = moneda}

FilasHasta(t, moneda, fecha) ==
    {i \in FilasDe(t, moneda) : t.rows[i]["fecha"].n <= fecha.n}

DiasDe(fd, moneda) == {i \in 1..Len(fd) : fd[i].moneda = moneda}

EsUltimoDia(fd, i) == \A j \in DiasDe(fd, fd[i].moneda) : fd[j].fecha.n <= fd[i].fecha.n

Calculado == pc \in {"kpis", "exported"}

\* C1: in every row (date D, currency c) of the daily flow, saldo_acumulado is
\* the sum of monto_neto over the cleaned transactions of currency c dated D
\* or earlier; on the last date of a currency it is also the sum of flujo_neto
\* over the currency's daily rows and the sum of monto_neto over all the
\* cleaned transactions of the currency.
C1_SaldoAcumulado ==
    Calculado =>
        \A i \in 1..Len(flujo_diario) :
            /\ flujo_diario[i].saldo_acumulado =
                   Suma(df_antes,
                        FilasHasta(df_antes, flujo_diario[i].moneda, flujo_diario[i].fecha),
                        "monto_neto", 1)
            /\ EsUltimoDia(flujo_diario, i) =>
                   /\ flujo_diario[i].saldo_acumulado =
                          SumaCampo(flujo_diario, DiasDe(flujo_diario, flujo_diario[i].moneda),
                                    "flujo_neto", 1)
                   /\ flujo_diario[i].saldo_acumulado =
                          Suma(df_antes, FilasDe(df_antes, flujo_diario[i].moneda),
                               "monto_neto", 1)

\* C1 witness: a currency with two days, the later balance carrying the
\* earlier day's flow.
C1_Witness ==
    /\ pc = "kpis"
    /\ \E i, j \in 1..Len(flujo_diario) :
          /\ flujo_diario[i].moneda = flujo_diario[j].moneda
          /\ flujo_diario[i].fecha.n < flujo_diario[j].fecha.n
          /\ flujo_diario[i].flujo_neto # 0
          /\ flujo_diario[j].saldo_acumulado =
                 flujo_diario[i].flujo_neto + flujo_diario[j].flujo_neto

Monedas(t) == {t.rows[i]["moneda"] : i \in 1..Len(t.rows)}

ProductosDe(pp, moneda) == {i \in 1..Len(pp) : pp[i].moneda = moneda}

\* C2: for every currency, total_ingresos summed over the product summary's
\* rows of the currency is the total monto of the cleaned ingreso transactions
\* of the currency, and total_egresos likewise for the egreso transactions,
\* also when a transaction has no nombre_producto.
C2_ReconciliaPorProducto ==
    Calculado =>
        \A m \in Monedas(df_antes) :
            /\ SumaCampo(por_producto, ProductosDe(por_producto, m), "total_ingresos", 1)
                   = SumaTipo(df_antes, FilasDe(df_antes, m), s_ingreso)
            /\ SumaCampo(por_producto, ProductosDe(por_producto, m), "total_egresos", 1)
                   = SumaTipo(df_antes, FilasDe(df_antes, m), s_egreso)

\* C3: in every row of the daily flow and of the monthly summary, flujo_neto
\* is total_ingresos minus total_egresos, whatever operation types survive
\* the cleaning.
C3_FlujoNetoEsDiferencia ==
    Calculado =>
        /\ \A i \in 1..Len(flujo_diario) :
              flujo_diario[i].flujo_neto =
                  flujo_diario[i].total_ingresos - flujo_diario[i].total_egresos
        /\ \A i \in 1..Len(resumen_mensual) :
              resumen_mensual[i].flujo_neto =
                  resumen_mensual[i].total_ingresos - resumen_mensual[i].total_egresos

\* C4: cleaning a cleaned table removes no row and returns the same rows with
\* the same tipo_operacion, moneda, monto and monto_neto.
C4_LimpiezaIdempotente ==
    pc = "recleaned" =>
        /\ eliminados2 = 0
        /\ Len(heap[df2].rows) = Len(heap[df].rows)
        /\ \A i \in 1..Len(heap[df2].rows) :
              \A c \in {"index", "tipo_operacion", "moneda", "monto", "monto_neto"} :
                  heap[df2].rows[i][c] = heap[df].rows[i][c]

\* A row the cleaning has no reason to drop but a repeated id.
Valida(row) ==
    /\ \A c \in {"fecha", "monto", "tipo_operacion", "moneda"} : ~isna(row[c])
    /\ ~isna(to_numeric(row["monto"]))

PrimeraDeSuId(rows, k) == \A j \in 1..(k - 1) : rows[j]["id_movimiento"] # rows[k]["id_movimiento"]

Indices(rows) == {rows[i]["index"] : i \in 1..Len(rows)}

\* C5: the cleaned table has at most one row per id_movimiento; a row it
\* retains is the first input row of its id; the removed count is the number
\* of input rows minus the number of output rows; and when every input row is
\* otherwise valid the first row of each id, and only it, is retained.
C5_PrimerDuplicado ==
    pc = "cleaned" =>
        /\ \A i, j \in 1..Len(heap[df].rows) :
              i # j => heap[df].rows[i]["id_movimiento"] # heap[df].rows[j]["id_movimiento"]
        /\ \A i \in 1..Len(heap[df].rows) :
              \E k \in 1..Len(T_antes.rows) :
                  /\ T_antes.rows[k]["index"] = heap[df].rows[i]["index"]
                  /\ T_antes.rows[k]["id_movimiento"] = heap[df].rows[i]["id_movimiento"]
                  /\ T_antes.rows[k]["contraparte"] = heap[df].rows[i]["contraparte"]
                  /\ PrimeraDeSuId(T_antes.rows, k)
        /\ eliminados = Len(T_antes.rows) - Cardinality(Indices(heap[df].rows))
        /\ Cardinality(Indices(heap[df].rows)) = Len(heap[df].rows)
        /\ (\A k \in 1..Len(T_antes.rows) : Valida(T_antes.rows[k])) =>
              Indices(heap[df].rows) =
                  {T_antes.rows[k]["index"] :
                      k \in {j \in 1..Len(T_antes.rows) : PrimeraDeSuId(T_antes.rows, j)}}

\* C5 witness: two valid rows share an id and differ in amount; the first is
\* retained and one row is reported removed.
C5_Witness ==
    /\ pc = "cleaned"
    /\ Len(T_antes.rows) = 2
    /\ T_antes.rows[1]["id_movimiento"] = T_antes.rows[2]["id_movimiento"]
    /\ Valida(T_antes.rows[1]) /\ Valida(T_antes.rows[2])
    /\ to_numeric(T_antes.rows[1]["monto"]) # to_numeric(T_antes.rows[2]["monto"])
    /\ Len(heap[df].rows) = 1
    /\ heap[df].rows[1]["index"] = Num(0)
    /\ eliminados = 1

\* C6: calcular_kpis leaves the table it was passed as it was: the same
\* columns and the same rows.
C6_KpisNoModificaEntrada ==
    Calculado => heap[df] = df_antes

\* C7: limpiar_datos leaves the table it was passed as it was (same rows, same
\* columns, values not normalised) and returns another table.
C7_LimpiarNoModificaEntrada ==
    /\ pc = "cleaned" => (heap[T] = T_antes /\ df # T)
    /\ pc = "recleaned" => (heap[T] = T_antes /\ df2 # T)

\* C7 witness: a call that dropped a row, normalised the text and added
\* monto_neto to its result, with the caller's table still lacking it.
C7_Witness ==
    /\ pc = "cleaned"
    /\ Len(T_antes.rows) = 2
    /\ Len(heap[df].rows) = 1
    /\ "monto_neto" \in heap[df].cols
    /\ "monto_neto" \notin heap[T].cols
    /\ \E k \in 1..2 :
          /\ T_antes.rows[k]["index"] = heap[df].rows[1]["index"]
          /\ T_antes.rows[k]["tipo_operacion"] # heap[df].rows[1]["tipo_operacion"]
          /\ T_antes.rows[k]["monto"] # heap[df].rows[1]["monto"]
          /\ heap[T].rows[k] = T_antes.rows[k]

PrimeraAparicion(t, contraparte) ==
    CHOOSE i \in 1..Len(t.rows) :
        /\ t.rows[i]["contraparte"] = contraparte
        /\ \A j \in 1..(i - 1) : t.rows[j]["contraparte"] # contraparte

Volumen(t, contraparte) ==
    Suma(t, {i \in 1..Len(t.rows) : t.rows[i]["contraparte"] = contraparte}, "monto", 1)

Contrapartes(t) ==
    {t.rows[i]["contraparte"] : i \in {j \in 1..Len(t.rows) : ~isna(t.rows[j]["contraparte"])}}

\* C8: the top-counterparties view has at most 10 rows, one per distinct
\* counterparty, by volumen_total (the sum of monto over the counterparty's
\* transactions) descending, counterparties of equal volume in the order of
\* their first appearance in the input; a counterparty left out has no more
\* volume than any one included.
C8_TopContrapartes ==
    Calculado =>
        /\ Len(top_contrapartes) <= TopN
        /\ \A i, j \in 1..Len(top_contrapartes) :
              i # j => top_contrapartes[i].contraparte # top_contrapartes[j].contraparte
        /\ \A i \in 1..Len(top_contrapartes) :
              /\ top_contrapartes[i].contraparte \in Contrapartes(df_antes)
              /\ top_contrapartes[i].volumen_total =
                     Volumen(df_antes, top_contrapartes[i].contraparte)
        /\ \A i \in 1..(Len(top_contrapartes) - 1) :
              \/ top_contrapartes[i].volumen_total > top_contrapartes[i + 1].volumen_total
              \/ /\ top_contrapartes[i].volumen_total = top_contrapartes[i + 1].volumen_total
                 /\ PrimeraAparicion(df_antes, top_contrapartes[i].contraparte)
                        < PrimeraAparicion(df_antes, top_contrapartes[i + 1].contraparte)
        /\ \A c \in Contrapartes(df_antes) :
              \/ \E i \in 1..Len(top_contrapartes) : top_contrapartes[i].contraparte = c
              \/ \A i \in 1..Len(top_contrapartes) :
                    Volumen(df_antes, c) <= top_contrapartes[i].volumen_total

DiasEnAlerta(fd) ==
    {i \in 1..Len(fd) : fd[i].moneda = Str(s_PEN) /\ fd[i].flujo_neto < 0}

\* C9: the liquidity alerts are exactly the daily-flow rows of currency PEN
\* with a strictly negative flujo_neto, each once, with the row's flujo_neto
\* and saldo_acumulado, by flujo_neto ascending.
C9_Alertas ==
    Calculado =>
        /\ \A a \in 1..Len(alertas) :
              \E i \in DiasEnAlerta(flujo_diario) :
                  /\ flujo_diario[i].fecha = alertas[a].fecha
                  /\ flujo_diario[i].flujo_neto = alertas[a].flujo_neto
                  /\ flujo_diario[i].saldo_acumulado = alertas[a].saldo_acumulado
        /\ \A i \in DiasEnAlerta(flujo_diario) :
              \E a \in 1..Len(alertas) : flujo_diario[i].fecha = alertas[a].fecha
        /\ Len(alertas) = Cardinality(DiasEnAlerta(flujo_diario))
        /\ \A a \in 1..(Len(alertas) - 1) : alertas[a].flujo_neto <= alertas[a + 1].flujo_neto

\* C9 witness: two PEN days in alert, the later and more negative one first.
C9_Witness ==
    /\ pc = "kpis"
    /\ Len(alertas) = 2
    /\ alertas[1].flujo_neto < alertas[2].flujo_neto
    /\ alertas[1].fecha.n > alertas[2].fecha.n

NombresDeHojas == <<"Flujo Diario", "Resumen Mensual", "Por Producto",
                    "Top Contrapartes", "Alertas Liquidez", "Data Completa">>

\* C10: the workbook holds exactly the six sheets Flujo Diario, Resumen
\* Mensual, Por Producto, Top Contrapartes, Alertas Liquidez, Data Completa in
\* that order; the alerts sheet holds the alerts when there are any and exactly
\* one informational row when there are none.
C10_SeisHojas ==
    pc = "exported" =>
        /\ [i \in 1..Len(libro) |-> libro[i].sheet_name] = NombresDeHojas
        /\ IF alertas = <<>>
           THEN /\ Len(libro[5].filas) = 1
                /\ DOMAIN libro[5].filas[1] = {"mensaje"}
           ELSE libro[5].filas = alertas

\* C10 witness: a workbook written without any alert.
C10_Witness ==
    /\ pc = "exported"
    /\ alertas = <<>>
    /\ flujo_diario # <<>>
    /\ Len(libro) = 6
    /\ libro[5].filas = << [mensaje |-> "Sin alertas en el periodo"] >>

====
